---- MODULE Spec2Model ----
(***************************************************************************)
(* The product catalogue server of src/server.js (the complete server of   *)
(* lines 156-327): four routes over one mongoose collection and one upload *)
(* directory.  Every handler is an async function; it is modelled as one   *)
(* action per database round trip, each action being the database          *)
(* operation together with the synchronous code that runs on its result.   *)
(* fs.unlink is started by the handlers and completes on its own, so it is *)
(* an action of its own.  The server is taken to be started from its own   *)
(* directory, so that multer's 'uploads/' and __dirname/uploads coincide.  *)
(***************************************************************************)
EXTENDS Integers, Sequences, FiniteSets, Bags, TLC

(***************************************************************************)
(* Bounds of the model.                                                    *)
(***************************************************************************)
MaxReq == 2        \* handlers in flight at once
MaxIds == 2        \* documents ever inserted
MaxTime == 1       \* Date.now() ranges over 0..MaxTime
MaxPending == 2    \* fs.unlink calls started and not yet completed

Reqs == 1..MaxReq
BadId == 0         \* an :id that is no ObjectId, e.g. "xyz"
UnknownId == -1    \* a well-formed ObjectId the collection never assigned
OrigNames == {"a.png"}

(***************************************************************************)
(* JavaScript values.  Values of different types are records with          *)
(* different fields, so that they compare unequal.                         *)
(***************************************************************************)
Null == [null |-> TRUE]
Undef == [undefined |-> TRUE]
Str(s) == [str |-> s]
Num(n) == [num |-> n]
Cat(tokens) == [cat |-> tokens]      \* a template string, as its pieces
CastError == [castError |-> TRUE]

\* The fields a client sends (req.body.*): a multipart field is a string
\* or is missing; a JSON body (express.json()) can also carry null.
Names == {Undef, Null, Str("Pen")}
Prices == {Undef, Str(""), Str("abc"), Str("15")}
Descriptions == {Str("Blue ink")}
Bodies == [name : Names, price : Prices, description : Descriptions]
WellFormed == [name : {Str("Pen")}, price : {Str("15")},
               description : {Str("Blue ink")}]
NoFile == Null
FileChoices == {NoFile} \cup {Str(o) : o \in OrigNames}

Protocol == "http"
Host == "localhost:3000"

VARIABLES
    now,            \* Date.now()
    nextId,         \* the next _id the collection assigns
    db,             \* the products collection: _id -> document
    files,          \* names of the files in the uploads directory
    unlinks,        \* bag of the files whose fs.unlink has not completed
    req,            \* the handler of each request slot
    resp,           \* the answer sent by the step just taken, if any, with
                    \* what the handler held and the database returned
    deleted200      \* _ids for which a Delete has answered 200

vars == <<now, nextId, db, files, unlinks, req, resp,
          deleted200>>

Idle == [pc |-> "idle"]
NoResp == [op |-> "none", status |-> 0]

(***************************************************************************)
(* The schema, and mongoose's casting and validation.                      *)
(***************************************************************************)
\* mongoose casts a Number path: '' becomes null, a numeric string its
\* number, anything else is a CastError.
CastNumber(v) ==
    IF v \in {Undef, Null} THEN v
    ELSE IF v = Str("") THEN Null
    ELSE IF v = Str("15") THEN Num(15)
    ELSE CastError

\* required: true fails on undefined and null, and for a String on ''.
RequiredOk(v) == v \notin {Undef, Null, Str("")}

\* productSchema applied to the fields given to new productModel(...).
CastDoc(fields) ==
    [name |-> fields.name, price |-> CastNumber(fields.price),
     description |-> fields.description, image |-> fields.image]

ValidDoc(doc) ==
    /\ RequiredOk(doc.name)
    /\ doc.price # CastError /\ RequiredOk(doc.price)
    /\ RequiredOk(doc.description)

\* The keys of an update that reach the database, with their cast values:
\* mongoose (6 and later) drops the keys whose value is undefined, and runs
\* no validator on an update.
UpdateValue(k, v) == IF k = "price" THEN CastNumber(v) ELSE v

UpdateKeys(updatedData) == {k \in DOMAIN updatedData : updatedData[k] # Undef}

UpdateCastOk(updatedData) == CastNumber(updatedData.price) # CastError

\* $set of the update's keys on a document.
ApplyUpdate(doc, updatedData) ==
    [k \in DOMAIN doc |->
        IF k \in UpdateKeys(updatedData)
        THEN UpdateValue(k, updatedData[k]) ELSE doc[k]]

(***************************************************************************)
(* File names, paths and URLs.                                             *)
(***************************************************************************)
\* storage.filename: `${Date.now()}-${file.originalname}`
Filename(t, orig) == <<t, "-", orig>>

\* `/uploads/${req.file.filename}`
UploadPath(filename) == Cat(<<"/uploads/">> \o filename)

\* path.join(__dirname, product.image): the file of the uploads directory
\* the stored path names.
DiskFile(image) == Tail(image.cat)

\* The stored path sent as it is.
RelativeUrl(image) == IF image \in {Null, Undef} THEN Null ELSE image

\* product.image ? `${req.protocol}://${req.get('host')}${product.image}` : null
AbsoluteUrl(image) ==
    IF image \in {Null, Undef} THEN Null
    ELSE Cat(<<Protocol, "://", Host>> \o image.cat)

WithAbsoluteUrl(doc) == [doc EXCEPT !.image = AbsoluteUrl(doc.image)]

HasImage(doc) == doc.image \notin {Null, Undef}

\* fs.unlink(path, callback) is started.
StartUnlink(f) == unlinks (+) SetToBag({f})

\* upload.single("image"): the file, when one is sent, is written under
\* its generated name before the handler runs.
Stored(choice) ==
    IF choice = NoFile THEN NoFile
    ELSE [filename |-> Filename(now, choice.str)]

Upload(choice) ==
    files' = IF choice = NoFile THEN files
             ELSE files \cup {Filename(now, choice.str)}

(***************************************************************************)
(* The collection's operations, on the collection as it is when the        *)
(* database runs them.                                                     *)
(***************************************************************************)
\* productModel.findById(id): the document, or null.
FindById(id) == IF id \in DOMAIN db THEN db[id] ELSE Null

\* findByIdAndUpdate as it would be with {upsert: true}.
FindByIdAndUpsert(id, updatedData) ==
    IF id \in DOMAIN db
    THEN [db EXCEPT ![id] = ApplyUpdate(@, updatedData)]
    ELSE (id :> ApplyUpdate([name |-> Null, price |-> Null,
                             description |-> Null, image |-> Null],
                            updatedData)) @@ db

\* The collection after findByIdAndUpdate(id, updatedData, {new: true}):
\* no upsert.
FindByIdAndUpdate(id, updatedData) ==
    IF id \in DOMAIN db
    THEN [db EXCEPT ![id] = ApplyUpdate(@, updatedData)]
    ELSE db

\* findByIdAndDelete removing nothing.
FindByIdAndDeleteNothing(id) == db

\* The collection after findByIdAndDelete(id).
FindByIdAndDelete(id) == [i \in DOMAIN db \ {id} |-> db[i]]

\* The lookup's result used without starting any unlink.
UnlinkNothing(product) == unlinks

\* if (product && product.image) fs.unlink(path.join(__dirname,
\* product.image), ...): the unlinks under way after it.
UnlinkImageOf(product) ==
    IF product # Null /\ HasImage(product)
    THEN StartUnlink(DiskFile(product.image))
    ELSE unlinks

Creating == Cardinality({r \in Reqs : req[r].pc = "save"})

Init ==
    /\ now = 0
    /\ nextId = 1
    /\ db = <<>>
    /\ files = {}
    /\ unlinks = EmptyBag
    /\ req = [r \in Reqs |-> Idle]
    /\ resp = NoResp
    /\ deleted200 = {}

\* Time passes.
Tick ==
    /\ now < MaxTime
    /\ now' = now + 1
    /\ resp' = NoResp
    /\ UNCHANGED <<nextId, db, files, unlinks, req, deleted200>>

(***************************************************************************)
(* POST /products                                                          *)
(***************************************************************************)
CreateRequest(r, body, choice) ==
    /\ req[r] = Idle
    /\ nextId + Creating <= MaxIds
    /\ Upload(choice)
    /\ LET file == Stored(choice)
           imageUrl == IF file # NoFile THEN UploadPath(file.filename) ELSE Null
       IN req' = [req EXCEPT ![r] =
                    [op |-> "create", pc |-> "save", file |-> file,
                     newProduct |-> CastDoc([name |-> body.name,
                                             price |-> body.price,
                                             description |-> body.description,
                                             image |-> imageUrl])]]
    /\ resp' = NoResp
    /\ UNCHANGED <<now, nextId, db, unlinks, deleted200>>

\* await newProduct.save(), and the answer.
CreateSave(r) ==
    /\ req[r].pc = "save"
    /\ LET doc == req[r].newProduct
       IN IF ValidDoc(doc)
          THEN /\ db' = (nextId :> doc) @@ db
               /\ nextId' = nextId + 1
               /\ resp' = [op |-> "create", status |-> 200, id |-> nextId,
                           file |-> req[r].file, body |-> doc]
          ELSE /\ resp' = [op |-> "create", status |-> 500,
                           file |-> req[r].file]
               /\ UNCHANGED <<db, nextId>>
    /\ req' = [req EXCEPT ![r] = Idle]
    /\ UNCHANGED <<now, files, unlinks, deleted200>>

(***************************************************************************)
(* GET /products                                                           *)
(***************************************************************************)
ListRequest(r) ==
    /\ req[r] = Idle
    /\ req' = [req EXCEPT ![r] = [op |-> "list", pc |-> "find"]]
    /\ resp' = NoResp
    /\ UNCHANGED <<now, nextId, db, files, unlinks, deleted200>>

\* await productModel.find(), the map over the result, and the answer.
ListFind(r) ==
    /\ req[r].pc = "find"
    /\ resp' = [op |-> "list", status |-> 200,
                body |-> [id \in DOMAIN db |-> WithAbsoluteUrl(db[id])]]
    /\ req' = [req EXCEPT ![r] = Idle]
    /\ UNCHANGED <<now, nextId, db, files, unlinks,
                   deleted200>>

(***************************************************************************)
(* PUT /products/:id                                                       *)
(***************************************************************************)
UpdateRequest(r, id, body, choice) ==
    /\ req[r] = Idle
    /\ Upload(choice)
    /\ req' = [req EXCEPT ![r] =
                 [op |-> "update",
                  pc |-> IF choice # NoFile THEN "findById"
                         ELSE "findByIdAndUpdate",
                  id |-> id, file |-> Stored(choice),
                  updatedData |-> [name |-> body.name, price |-> body.price,
                                   description |-> body.description]]]
    /\ resp' = NoResp
    /\ UNCHANGED <<now, nextId, db, unlinks, deleted200>>

\* if (req.file): await productModel.findById, the unlink of the old image,
\* and updatedData.image.
UpdateFindById(r) ==
    /\ req[r].pc = "findById"
    /\ req[r].op = "update"
    /\ LET id == req[r].id
       IN IF id = BadId
          THEN /\ resp' = [op |-> "update", status |-> 500, id |-> id,
                           file |-> req[r].file]
               /\ req' = [req EXCEPT ![r] = Idle]
               /\ UNCHANGED unlinks
          ELSE /\ unlinks' = UnlinkImageOf(FindById(id))
               /\ BagCardinality(unlinks') <= MaxPending
               /\ req' = [req EXCEPT ![r] =
                            [@ EXCEPT !.pc = "findByIdAndUpdate",
                                      !.updatedData =
                                         ("image" :> UploadPath(req[r].file.filename))
                                         @@ @]]
               /\ resp' = NoResp
    /\ UNCHANGED <<now, nextId, db, files,
                   deleted200>>

\* await productModel.findByIdAndUpdate(id, updatedData, {new: true}), and
\* the answer.
UpdateFindByIdAndUpdate(r) ==
    /\ req[r].pc = "findByIdAndUpdate"
    /\ LET id == req[r].id
           updatedData == req[r].updatedData
       IN IF id = BadId \/ ~UpdateCastOk(updatedData)
          THEN /\ resp' = [op |-> "update", status |-> 500, id |-> id,
                           file |-> req[r].file]
               /\ UNCHANGED db
          ELSE IF id \notin DOMAIN db
          THEN /\ resp' = [op |-> "update", status |-> 404, id |-> id,
                           file |-> req[r].file]
               /\ db' = FindByIdAndUpdate(id, updatedData)
          ELSE /\ db' = FindByIdAndUpdate(id, updatedData)
               /\ resp' = [op |-> "update", status |-> 200, id |-> id,
                           file |-> req[r].file, previous |-> db[id],
                           body |-> WithAbsoluteUrl(db'[id])]
    /\ req' = [req EXCEPT ![r] = Idle]
    /\ UNCHANGED <<now, nextId, files, unlinks, deleted200>>

(***************************************************************************)
(* DELETE /products/:id                                                    *)
(***************************************************************************)
DeleteRequest(r, id) ==
    /\ req[r] = Idle
    /\ req' = [req EXCEPT ![r] = [op |-> "delete", pc |-> "findById", id |-> id]]
    /\ resp' = NoResp
    /\ UNCHANGED <<now, nextId, db, files, unlinks, deleted200>>

\* await productModel.findById, the 404, and the unlink of the image.
DeleteFindById(r) ==
    /\ req[r].pc = "findById"
    /\ req[r].op = "delete"
    /\ LET id == req[r].id
       IN IF id = BadId \/ id \notin DOMAIN db
          THEN /\ resp' = [op |-> "delete", id |-> id,
                           status |-> IF id = BadId THEN 500 ELSE 404]
               /\ req' = [req EXCEPT ![r] = Idle]
               /\ UNCHANGED unlinks
          ELSE /\ unlinks' = UnlinkImageOf(FindById(id))
               /\ BagCardinality(unlinks') <= MaxPending
               /\ req' = [req EXCEPT ![r] =
                            [op |-> "delete", pc |-> "findByIdAndDelete",
                             id |-> id, product |-> [image |-> db[id].image]]]
               /\ resp' = NoResp
    /\ UNCHANGED <<now, nextId, db, files,
                   deleted200>>

\* The removal as it would be if it unlinked the image of the document it
\* removed.
DeleteUnlinkingRemoved(r) ==
    /\ req[r].pc = "findByIdAndDelete"
    /\ LET id == req[r].id
       IN /\ db' = [i \in DOMAIN db \ {id} |-> db[i]]
          /\ deleted200' = deleted200 \cup {id}
          /\ unlinks' = IF id \in DOMAIN db /\ HasImage(db[id])
                        THEN StartUnlink(DiskFile(db[id].image))
                        ELSE unlinks
          /\ resp' = [op |-> "delete", id |-> id, status |-> 200,
                      product |-> req[r].product,
                      removed |-> IF id \in DOMAIN db THEN {db[id]} ELSE {}]
    /\ req' = [req EXCEPT ![r] = Idle]
    /\ UNCHANGED <<now, nextId, files>>

\* await productModel.findByIdAndDelete, whose result is dropped, and the
\* answer.
DeleteFindByIdAndDelete(r) ==
    /\ req[r].pc = "findByIdAndDelete"
    /\ LET id == req[r].id
       IN /\ db' = FindByIdAndDelete(id)
          /\ deleted200' = deleted200 \cup {id}
          /\ resp' = [op |-> "delete", id |-> id, status |-> 200,
                      product |-> req[r].product,
                      removed |-> IF id \in DOMAIN db THEN {db[id]} ELSE {}]
    /\ req' = [req EXCEPT ![r] = Idle]
    /\ UNCHANGED <<now, nextId, files, unlinks>>

(***************************************************************************)
(* fs.unlink completes: the file is removed, or the callback gets an error *)
(* (the file is absent, or cannot be removed) and logs it.                 *)
(***************************************************************************)
UnlinkDone(f) ==
    /\ BagIn(f, unlinks)
    /\ f \in files
    /\ unlinks' = unlinks (-) SetToBag({f})
    /\ files' = files \ {f}
    /\ resp' = NoResp
    /\ UNCHANGED <<now, nextId, db, req, deleted200>>

\* The error of a failed unlink reaching a client as a 500.
UnlinkErrorThrown(f) ==
    /\ BagIn(f, unlinks)
    /\ unlinks' = unlinks (-) SetToBag({f})
    /\ resp' = [op |-> "unlink", status |-> 500]
    /\ UNCHANGED <<now, nextId, db, files, req, deleted200>>

UnlinkError(f) ==
    /\ BagIn(f, unlinks)
    /\ unlinks' = unlinks (-) SetToBag({f})
    /\ resp' = NoResp
    /\ UNCHANGED <<now, nextId, db, files, req, deleted200>>

\* The :id a client can send: one a Create has returned, a well-formed one
\* that names nothing, or a malformed one.
Assigned == 1..(nextId - 1)
Targets == Assigned \cup {UnknownId, BadId}

AllFiles == {Filename(t, o) : t \in 0..MaxTime, o \in OrigNames}

\* Concurrent requests with well-formed text fields, for the ids the
\* server has handed out.
Next ==
    \/ Tick
    \/ \E r \in Reqs, body \in WellFormed, choice \in FileChoices :
          CreateRequest(r, body, choice)
    \/ \E r \in Reqs : CreateSave(r)
    \/ \E r \in Reqs : ListRequest(r)
    \/ \E r \in Reqs : ListFind(r)
    \/ \E r \in Reqs, id \in Assigned, body \in WellFormed, choice \in FileChoices :
          UpdateRequest(r, id, body, choice)
    \/ \E r \in Reqs : UpdateFindById(r)
    \/ \E r \in Reqs : UpdateFindByIdAndUpdate(r)
    \/ \E r \in Reqs, id \in Assigned : DeleteRequest(r, id)
    \/ \E r \in Reqs : DeleteFindById(r)
    \/ \E r \in Reqs : DeleteFindByIdAndDelete(r)
    \/ \E f \in AllFiles : UnlinkDone(f)
    \/ \E f \in AllFiles : UnlinkError(f)

Spec == Init /\ [][Next]_vars

\* One request at a time, with every combination of present, empty and
\* missing text fields, for every kind of id.
NextFields ==
    \/ Tick
    \/ \E r \in {1}, body \in Bodies, choice \in FileChoices :
          CreateRequest(r, body, choice)
    \/ \E r \in {1} : CreateSave(r)
    \/ \E r \in {1} : ListRequest(r)
    \/ \E r \in {1} : ListFind(r)
    \/ \E r \in {1}, id \in Targets, body \in Bodies, choice \in FileChoices :
          UpdateRequest(r, id, body, choice)
    \/ \E r \in {1} : UpdateFindById(r)
    \/ \E r \in {1} : UpdateFindByIdAndUpdate(r)
    \/ \E r \in {1}, id \in Targets : DeleteRequest(r, id)
    \/ \E r \in {1} : DeleteFindById(r)
    \/ \E r \in {1} : DeleteFindByIdAndDelete(r)
    \/ \E f \in AllFiles : UnlinkDone(f)
    \/ \E f \in AllFiles : UnlinkError(f)

SpecFields == Init /\ [][NextFields]_vars

(***************************************************************************)
(* The properties.                                                         *)
(***************************************************************************)
Answered(status) == resp'.op # "none" /\ resp'.status = status
Silent == resp'.op = "none"
Copies(f, bag) == IF BagIn(f, bag) THEN CopiesIn(f, bag) ELSE 0
Started(f) == Copies(f, unlinks') = Copies(f, unlinks) + 1

\* C1 as stated: an Update or a Delete whose id matches no stored record
\* is answered 404 and leaves the set of records as it was, with or
\* without a file.
C1_AsStated ==
    [][\A r \in Reqs :
         /\ (UpdateFindById(r) /\ req[r].id \notin DOMAIN db)
               => db' = db /\ (Silent \/ Answered(404))
         /\ (UpdateFindByIdAndUpdate(r) /\ req[r].id \notin DOMAIN db)
               => db' = db /\ Answered(404)
         /\ (DeleteFindById(r) /\ req[r].id \notin DOMAIN db)
               => db' = db /\ Answered(404)]_vars

\* C1 as amended: an Update or a Delete whose id is a well-formed id that
\* matches no stored record when the handler's deciding database call runs
\* (findByIdAndUpdate, and findById of Delete) is answered 404, provided the
\* Update's price casts to a number; a malformed id or a price that is no
\* number is answered 500; in all these cases the set of records stays as
\* it was, with or without a file.
C1_UnknownId ==
    [][\A r \in Reqs :
         /\ (UpdateFindById(r) /\ req[r].id \notin DOMAIN db)
               => /\ db' = db
                  /\ IF req[r].id = BadId THEN Answered(500) ELSE Silent
         /\ (UpdateFindByIdAndUpdate(r) /\ req[r].id \notin DOMAIN db)
               => /\ db' = db
                  /\ IF \/ req[r].id = BadId
                        \/ req[r].updatedData.price
                              \notin {Undef, Str(""), Str("15")}
                     THEN Answered(500) ELSE Answered(404)
         /\ (DeleteFindById(r) /\ req[r].id \notin DOMAIN db)
               => /\ db' = db
                  /\ IF req[r].id = BadId
                     THEN Answered(500) ELSE Answered(404)]_vars

\* An Update with a file for an id that names nothing has been answered
\* 404 while another record is stored.
C1_Witness ==
    /\ resp.op = "update" /\ resp.status = 404
    /\ resp.file # NoFile
    /\ resp.id \notin DOMAIN db /\ DOMAIN db # {}

\* C4 as stated: every record of the store has non-null name, price and
\* description.
C4_AsStated ==
    \A id \in DOMAIN db :
        /\ db[id].name \notin {Null, Undef}
        /\ db[id].price \notin {Null, Undef}
        /\ db[id].description \notin {Null, Undef}

\* C2 as stated: once a Delete of an existing record has answered 200, the
\* record is in no later List and the image file the record referenced is
\* out of the Image Store.
C2_AsStated ==
    [][/\ \A r \in Reqs :
            ListFind(r) => DOMAIN resp'.body \cap deleted200 = {}
       /\ \A r \in Reqs :
            (DeleteFindByIdAndDelete(r) /\ HasImage(req[r].product))
               => /\ Answered(200)
                  /\ DiskFile(req[r].product.image) \notin files']_vars

\* C2 as amended: once a Delete of an existing record has answered 200,
\* every List that starts afterwards omits the record; the Delete has
\* started, without awaiting it, the deletion of the image file its lookup
\* found on the record, and that file is out of the Image Store once that
\* deletion completes without an error.
C2_DeletedStaysOut ==
    [][/\ \A r \in Reqs :
            ListFind(r) => DOMAIN resp'.body \cap deleted200 = {}
       /\ \A r \in Reqs :
            (DeleteFindById(r) /\ req[r].id \in DOMAIN db)
               => /\ Silent
                  /\ HasImage(db[req[r].id])
                        => Started(DiskFile(db[req[r].id].image))
       /\ \A r \in Reqs :
            DeleteFindByIdAndDelete(r)
               => /\ Answered(200)
                  /\ req[r].id \notin DOMAIN db'
                  /\ req[r].id \in deleted200'
       /\ \A f \in AllFiles : UnlinkDone(f) => f \notin files']_vars

\* A List has answered after a Delete answered 200, with a record left to
\* list.
C2_Witness ==
    /\ resp.op = "list" /\ resp.status = 200
    /\ deleted200 # {} /\ DOMAIN resp.body # {}

\* C3 as stated: when an Update of an existing record with a new file has
\* answered 200, the stored image is the path of the new file, and the file
\* the record referenced before the Update goes out of the Image Store:
\* it is out once no handler runs and no unlink is under way (the new
\* file having a name of its own).
C3_AsStated ==
    (resp.op = "update" /\ resp.status = 200 /\ resp.file # NoFile)
       => /\ db[resp.id].image = UploadPath(resp.file.filename)
          /\ ( /\ HasImage(resp.previous)
               /\ resp.previous.image # UploadPath(resp.file.filename)
               /\ \A r \in Reqs : req[r] = Idle
               /\ unlinks = EmptyBag )
                => DiskFile(resp.previous.image) \notin files

\* C3 as amended: when an Update of an existing record with a new file
\* answers 200, the stored image becomes /uploads/<generated-name> of the
\* new file and the answer carries its absolute URL; the Update has
\* started, without awaiting it, the deletion of the file its lookup found
\* on the record, and that file is out of the Image Store once that
\* deletion completes without an error.
C3_ImageReplaced ==
    [][/\ \A r \in Reqs :
            (UpdateFindByIdAndUpdate(r) /\ Answered(200)
                /\ req[r].file # NoFile)
               => /\ db'[req[r].id].image
                       = Cat(<<"/uploads/">> \o req[r].file.filename)
                  /\ resp'.body.image
                       = Cat(<<Protocol, "://", Host, "/uploads/">>
                              \o req[r].file.filename)
       /\ \A r \in Reqs :
            (UpdateFindById(r) /\ req[r].id \in DOMAIN db
                /\ HasImage(db[req[r].id]))
               => Started(DiskFile(db[req[r].id].image))
       /\ \A f \in AllFiles : UnlinkDone(f) => f \notin files']_vars

\* An Update with a file has answered 200 and the file the record
\* referenced before it is out of the Image Store, the new one in it.
C3_Witness ==
    /\ resp.op = "update" /\ resp.status = 200 /\ resp.file # NoFile
    /\ HasImage(resp.previous)
    /\ resp.previous.image # db[resp.id].image
    /\ DiskFile(resp.previous.image) \notin files
    /\ DiskFile(db[resp.id].image) \in files

References(f) == {id \in DOMAIN db : HasImage(db[id]) /\ DiskFile(db[id].image) = f}

\* C5: a Create that answers 200 stores the record it answers with, whose
\* image is the relative path of the uploaded file or null; no step but an
\* Update or a Delete of a record changes or removes it; and a List
\* returns every stored record with its name, price and description and
\* with the image as scheme://host + the stored path, or null; the stored
\* image stays a relative path.
C5_ListAfterCreate ==
    [][/\ \A r \in Reqs :
            (CreateSave(r) /\ Answered(200))
               => /\ resp'.id \notin DOMAIN db
                  /\ db'[resp'.id] = resp'.body
                  /\ resp'.body.name = req[r].newProduct.name
                  /\ resp'.body.price = req[r].newProduct.price
                  /\ resp'.body.description = req[r].newProduct.description
                  /\ resp'.body.image =
                        IF req[r].file = NoFile THEN Null
                        ELSE Cat(<<"/uploads/">> \o req[r].file.filename)
       /\ \A id \in DOMAIN db :
            (id \notin DOMAIN db' \/ db'[id] # db[id])
               => \E r \in Reqs :
                     /\ req[r].pc \in {"findByIdAndUpdate", "findByIdAndDelete"}
                     /\ req[r].id = id
                     /\ req'[r] = Idle
       /\ \A r \in Reqs :
            ListFind(r)
               => /\ Answered(200)
                  /\ DOMAIN resp'.body = DOMAIN db
                  /\ \A id \in DOMAIN db :
                        /\ resp'.body[id].name = db[id].name
                        /\ resp'.body[id].price = db[id].price
                        /\ resp'.body[id].description = db[id].description
                        /\ resp'.body[id].image =
                              IF db[id].image = Null THEN Null
                              ELSE Cat(<<Protocol, "://", Host>>
                                         \o db[id].image.cat)
       /\ \A id \in DOMAIN db' :
            db'[id].image = Null \/ Head(db'[id].image.cat) = "/uploads/"]_vars

\* A List has answered with a record created with a file, its image an
\* absolute URL, and a record created without one, its image null.
C5_Witness ==
    /\ resp.op = "list" /\ resp.status = 200
    /\ \E i, j \in DOMAIN resp.body :
          /\ resp.body[i].image = Null
          /\ resp.body[j].image # Null
          /\ SubSeq(resp.body[j].image.cat, 1, 4)
                = <<Protocol, "://", Host, "/uploads/">>
          /\ db[j].image.cat = Tail(Tail(Tail(resp.body[j].image.cat)))

\* C6 as stated: a Create that answers 200 stores and returns image null
\* exactly when it carried no file; with a file the image begins with
\* /uploads/ and the file is in the Image Store when the record is saved.
C6_AsStated ==
    [][\A r \in Reqs :
         (CreateSave(r) /\ Answered(200))
            => /\ db'[resp'.id].image = resp'.body.image
               /\ (resp'.body.image = Null) <=> (req[r].file = NoFile)
               /\ req[r].file # NoFile
                     => /\ Head(resp'.body.image.cat) = "/uploads/"
                        /\ DiskFile(resp'.body.image) \in files]_vars

\* C7: an unlink that completes, with an error or without, answers no
\* request, ends no handler and leaves the records as they are: the
\* handlers go on alike after either.
C7_UnlinkOutcomeUnseen ==
    [][\A f \in AllFiles :
         (UnlinkError(f) \/ UnlinkDone(f))
            => /\ Silent
               /\ UNCHANGED <<db, req, deleted200, nextId>>]_vars

\* A Delete has answered 200 and removed the record although the file its
\* lookup found is still in the Image Store with no unlink under way.
C7_Witness ==
    /\ resp.op = "delete" /\ resp.status = 200
    /\ resp.removed # {}
    /\ HasImage(resp.product)
    /\ DiskFile(resp.product.image) \in files
    /\ unlinks = EmptyBag
    /\ resp.id \notin DOMAIN db

\* C8: the removal step of a Delete removes the record and starts no
\* unlink and removes no file, so an image an Update wrote to the record
\* after the Delete's lookup is left in the Image Store.
C8_RemovalLeavesNewImage ==
    [][\A r \in Reqs :
         DeleteFindByIdAndDelete(r)
            => /\ req[r].id \notin DOMAIN db'
               /\ unlinks' = unlinks
               /\ files' = files]_vars

\* Both requests are over, the record is gone, and the file the Update
\* wrote to it between the Delete's lookup and its removal is in the Image
\* Store, referenced by no record, with no unlink under way.
C8_Witness ==
    /\ resp.op = "delete" /\ resp.status = 200
    /\ \A r \in Reqs : req[r] = Idle
    /\ unlinks = EmptyBag
    /\ \E d \in resp.removed :
          /\ HasImage(d)
          /\ d.image # resp.product.image
          /\ DiskFile(d.image) \in files
          /\ References(DiskFile(d.image)) = {}

\* C9 as stated: at most one Delete answers 200 for a record: a Delete
\* that answers 200 is the first to do so for its id.
C9_AsStated ==
    [][\A r \in Reqs :
         (DeleteFindByIdAndDelete(r) /\ Answered(200))
            => req[r].id \notin deleted200]_vars

\* C10 as stated: an Update without a file leaves the record's image as it
\* is and starts no unlink, and the unlink an Update or a Delete starts is
\* of no file that a record other than the addressed one references.
C10_AsStated ==
    [][/\ \A r \in Reqs :
            (UpdateFindByIdAndUpdate(r) /\ req[r].file = NoFile)
               => /\ unlinks' = unlinks
                  /\ req[r].id \in DOMAIN db /\ req[r].id \in DOMAIN db'
                        => db'[req[r].id].image = db[req[r].id].image
       /\ \A r \in Reqs :
            (UpdateFindById(r) \/ DeleteFindById(r))
               => \A f \in AllFiles :
                     Started(f) => References(f) \subseteq {req[r].id}]_vars

====
